---- MODULE Spec2Model ----
(***************************************************************************)
(* The EPSTEIN line classifier and translator (src/src/parser.ts with the  *)
(* helpers of utils.ts, kept as src/unnamed/part_003).  Text is a TLA+     *)
(* string; a character is a string of length one.                          *)
(***************************************************************************)
EXTENDS Integers, Sequences, FiniteSets, TLC

VARIABLES code, lines, parsedLines, jsCode, pc, pass,
          sourceCode, interpJsCode, parserExported, call,
          globalScope, evalScope, scopeCopy, execCall

\* The translation pipeline of one EpsteinParser.
parserVars == <<code, lines, parsedLines, jsCode, pc, pass>>

\* One Interpreter: its fields, the build it runs in, and its last call.
interpVars == <<sourceCode, interpJsCode, parserExported, call>>

\* One Executor: its scope, the scope of its last evaluation, a caller's copy.
execVars == <<globalScope, evalScope, scopeCopy, execCall>>

vars == <<parserVars, interpVars, execVars>>

(***************************************************************************)
(* Bounds of the explored inputs.                                          *)
(***************************************************************************)
MaxIndent == 4
MaxLines == 2
MaxPasses == 1

(***************************************************************************)
(* String primitives of the host (JavaScript String and RegExp).           *)
(***************************************************************************)
Max(S) == CHOOSE x \in S : \A y \in S : y <= x
Min(S) == CHOOSE x \in S : \A y \in S : x <= y

\* s[i] of JavaScript, "" outside the string.
At(s, i) == IF i >= 1 /\ i <= Len(s) THEN SubSeq(s, i, i) ELSE ""

\* s.substring(a-1, b) for 1-based inclusive a..b, clamped to the string.
Sub(s, a, b) ==
    LET lo == IF a < 1 THEN 1 ELSE a
        hi == IF b > Len(s) THEN Len(s) ELSE b
    IN IF lo > hi THEN "" ELSE SubSeq(s, lo, hi)

\* The characters \s matches and trim() strips.
Whitespace == {" ", "\t", "\r", "\n", "\f"}

\* The characters the regular expression dot does not match.
LineTerminators == {"\n", "\r"}

\* The characters \w matches; \b lies between a \w and a non-\w character.
WordChars ==
    {"a", "b", "c", "d", "e", "f", "g", "h", "i", "j", "k", "l", "m",
     "n", "o", "p", "q", "r", "s", "t", "u", "v", "w", "x", "y", "z",
     "A", "B", "C", "D", "E", "F", "G", "H", "I", "J", "K", "L", "M",
     "N", "O", "P", "Q", "R", "S", "T", "U", "V", "W", "X", "Y", "Z",
     "0", "1", "2", "3", "4", "5", "6", "7", "8", "9", "_"}

IsWord(c) == c \in WordChars

\* First index >= i whose character is not whitespace (Len(s)+1 if none): \s*.
RECURSIVE SkipWs(_, _)
SkipWs(s, i) ==
    IF i <= Len(s) /\ At(s, i) \in Whitespace THEN SkipWs(s, i + 1) ELSE i

\* First index >= i whose character is not a word character: \w*.
RECURSIVE SkipWord(_, _)
SkipWord(s, i) ==
    IF i <= Len(s) /\ IsWord(At(s, i)) THEN SkipWord(s, i + 1) ELSE i

\* Last index <= i whose character is not whitespace (0 if none).
RECURSIVE SkipWsBack(_, _)
SkipWsBack(s, i) ==
    IF i >= 1 /\ At(s, i) \in Whitespace THEN SkipWsBack(s, i - 1) ELSE i

\* String.prototype.trim
Trim(s) == Sub(s, SkipWs(s, 1), SkipWsBack(s, Len(s)))

\* String.prototype.startsWith
StartsWith(s, p) == Len(s) >= Len(p) /\ Sub(s, 1, Len(p)) = p

\* String.prototype.indexOf from position i, 1-based; 0 stands for -1.
RECURSIVE IndexFrom(_, _, _)
IndexFrom(s, p, i) ==
    IF i + Len(p) - 1 > Len(s) THEN 0
    ELSE IF SubSeq(s, i, i + Len(p) - 1) = p THEN i
    ELSE IndexFrom(s, p, i + 1)

\* String.prototype.includes
Includes(s, p) == IndexFrom(s, p, 1) # 0

\* String.prototype.repeat for a whole count.
RECURSIVE Repeat(_, _)
Repeat(s, n) == IF n <= 0 THEN "" ELSE s \o Repeat(s, n - 1)

\* code.split('\n')
RECURSIVE Split(_)
Split(s) ==
    LET k == IndexFrom(s, "\n", 1)
    IN IF k = 0 THEN <<s>>
       ELSE <<Sub(s, 1, k - 1)>> \o Split(Sub(s, k + 1, Len(s)))

\* jsLines.join('\n')
RECURSIVE Join(_)
Join(ls) ==
    IF Len(ls) = 0 THEN ""
    ELSE IF Len(ls) = 1 THEN ls[1]
    ELSE ls[1] \o "\n" \o Join(Tail(ls))

\* No character of s[a..b] is a line terminator: the run a dot-star can cross.
NoTerminator(s, a, b) == \A j \in a..b : At(s, j) \notin LineTerminators

(***************************************************************************)
(* utils.ts                                                                *)
(***************************************************************************)
removeComment(line) ==
    LET commentIndex == IndexFrom(line, "//", 1)
    IN IF commentIndex # 0 THEN Sub(line, 1, commentIndex - 1) ELSE line

isFunction(line) == StartsWith(Trim(line), "plot ")

isConditional(line) ==
    LET trimmed == Trim(line)
    IN StartsWith(trimmed, "if ") \/ trimmed = "else:"

\* line.match(/^(\s*)/)[1].length
getIndent(line) == SkipWs(line, 1) - 1

\* Variant: the comment-only case forgotten.
isEmptyNoComment(line) == Trim(line) = ""

isEmpty(line) ==
    LET trimmed == Trim(line)
    IN trimmed = "" \/ StartsWith(trimmed, "//")

NoMatch == [ok |-> FALSE]

\* /loop\s+(\w+):/ tried at index i.
LoopMatchAt(s, i) ==
    LET w == i + 4
        n == SkipWs(s, w)
        p == SkipWord(s, n)
    IN IF Sub(s, i, i + 3) = "loop" /\ n > w /\ p > n /\ At(s, p) = ":"
       THEN [ok |-> TRUE, variable |-> "item", collection |-> Sub(s, n, p - 1)]
       ELSE NoMatch

extractLoop(line) ==
    LET M == {i \in 1..Len(line) : LoopMatchAt(line, i).ok}
    IN IF M = {} THEN NoMatch ELSE LoopMatchAt(line, Min(M))

(***************************************************************************)
(* parser.ts: the classifier                                               *)
(***************************************************************************)
ParsedLine(original, cleaned, indent, type) ==
    [original |-> original, cleaned |-> cleaned, indent |-> indent, type |-> type]

\* The category tags of the ParsedLine type.
LineTypes == {"variable", "function", "loop", "conditional", "expression", "empty"}

\* Variant: the assignment check made before the function and conditional checks.
parseLineAssignFirst(line) ==
    LET indent == getIndent(line)
        cleaned == Trim(removeComment(line))
    IN IF isEmpty(line) THEN ParsedLine(line, "", indent, "empty")
       ELSE IF Includes(cleaned, "=") THEN ParsedLine(line, cleaned, indent, "variable")
       ELSE IF isFunction(cleaned) THEN ParsedLine(line, cleaned, indent, "function")
       ELSE IF isConditional(cleaned) THEN ParsedLine(line, cleaned, indent, "conditional")
       ELSE ParsedLine(line, cleaned, indent, "expression")

parseLine(line) ==
    LET indent == getIndent(line)
        cleaned == Trim(removeComment(line))
    IN IF isEmpty(line) THEN ParsedLine(line, "", indent, "empty")
       ELSE IF isFunction(cleaned) THEN ParsedLine(line, cleaned, indent, "function")
       ELSE IF isConditional(cleaned) THEN ParsedLine(line, cleaned, indent, "conditional")
       ELSE IF Includes(cleaned, "=") THEN ParsedLine(line, cleaned, indent, "variable")
       ELSE ParsedLine(line, cleaned, indent, "expression")

\* EpsteinParser.parse: one ParsedLine per element of this.lines, in order.
parse(ls) == [i \in 1..Len(ls) |-> parseLine(ls[i])]

(***************************************************************************)
(* parser.ts: the header patterns                                          *)
(***************************************************************************)
\* /(?:plot|plan)\s+(\w+)\((.*?)\):/ tried at index i.  The lazy group ends at
\* the first "):" after the opening parenthesis.
FunctionMatchAt(s, i) ==
    LET w == i + 4
        n == SkipWs(s, w)
        p == SkipWord(s, n)
        c == IndexFrom(s, "):", p + 1)
    IN IF /\ Sub(s, i, i + 3) \in {"plot", "plan"}
          /\ n > w
          /\ p > n
          /\ At(s, p) = "("
          /\ c # 0
          /\ NoTerminator(s, p + 1, c - 1)
       THEN [ok |-> TRUE, name |-> Sub(s, n, p - 1), params |-> Sub(s, p + 1, c - 1)]
       ELSE NoMatch

FunctionMatch(s) ==
    LET M == {i \in 1..Len(s) : FunctionMatchAt(s, i).ok}
    IN IF M = {} THEN NoMatch ELSE FunctionMatchAt(s, Min(M))

\* The colons that can end the greedy group (.+) when it starts at index g.
GroupEnds(s, g) ==
    {c \in (g + 1)..Len(s) : At(s, c) = ":" /\ NoTerminator(s, g, c - 1)}

\* /if\s+(.+):/ tried at index i with \s+ taking k characters, k counted down
\* from the whole whitespace run (greedy, then backtracking).
RECURSIVE ConditionalMatchWs(_, _, _)
ConditionalMatchWs(s, i, k) ==
    IF k < 1 THEN NoMatch
    ELSE LET g == i + 2 + k
         IN IF GroupEnds(s, g) # {}
            THEN [ok |-> TRUE, condition |-> Sub(s, g, Max(GroupEnds(s, g)) - 1)]
            ELSE ConditionalMatchWs(s, i, k - 1)

ConditionalMatchAt(s, i) ==
    IF Sub(s, i, i + 1) = "if"
    THEN ConditionalMatchWs(s, i, SkipWs(s, i + 2) - (i + 2))
    ELSE NoMatch

ConditionalMatch(s) ==
    LET M == {i \in 1..Len(s) : ConditionalMatchAt(s, i).ok}
    IN IF M = {} THEN NoMatch ELSE ConditionalMatchAt(s, Min(M))

(***************************************************************************)
(* parser.ts: the token substitutions.  A rule is one replace() call:      *)
(* pat is the literal after the leading \b, tail is what follows it        *)
(* ("b": \b, "s+": \s+, "none": nothing), repl is the replacement.         *)
(***************************************************************************)
Rule(pat, tail, repl) == [pat |-> pat, tail |-> tail, repl |-> repl]

\* Length of the match of rule r starting at index i of s, 0 if none.
MatchLen(s, i, r) ==
    LET e == i + Len(r.pat)
    IN IF Sub(s, i, e - 1) = r.pat /\ ~IsWord(At(s, i - 1))
       THEN CASE r.tail = "none" -> Len(r.pat)
              [] r.tail = "b" -> IF IsWord(At(s, e)) THEN 0 ELSE Len(r.pat)
              [] r.tail = "s+" -> IF SkipWs(s, e) > e THEN SkipWs(s, e) - i ELSE 0
       ELSE 0

\* converted.replace(/.../g, repl) from index i on: leftmost matches, no overlap.
RECURSIVE ReplaceFrom(_, _, _)
ReplaceFrom(s, i, r) ==
    IF i > Len(s) THEN ""
    ELSE LET m == MatchLen(s, i, r)
         IN IF m > 0 THEN r.repl \o ReplaceFrom(s, i + m, r)
            ELSE At(s, i) \o ReplaceFrom(s, i + 1, r)

ReplaceAll(s, r) == ReplaceFrom(s, 1, r)

\* The replace() calls of a conversion applied one after the other.
RECURSIVE ApplyRules(_, _)
ApplyRules(s, rules) ==
    IF Len(rules) = 0 THEN s ELSE ApplyRules(ReplaceAll(s, rules[1]), Tail(rules))

ConstructorRules ==
    << Rule("theory(", "none", "Number("),
       Rule("risk(", "none", "parseFloat("),
       Rule("ghost(", "none", "String("),
       Rule("money(", "none", "Boolean(") >>

CollectionRules ==
    << Rule("island[", "none", "["),
       Rule("girl{", "none", "{"),
       Rule("mission(", "none", "["),
       Rule("weapon[", "none", "[") >>

StoryRules ==
    << Rule("truestory", "b", "true"),
       Rule("falsestory", "b", "false") >>

TruthRules ==
    << Rule("truth", "b", "true"),
       Rule("lie", "b", "false") >>

NullRules ==
    << Rule("universe", "b", "null"),
       Rule("alibi", "b", "null") >>

\* Variant: /\btruth/ and /\blie/ without the closing \b.
VariableRulesPrefixMatch ==
    ConstructorRules \o CollectionRules \o StoryRules
      \o << Rule("truth", "none", "true"), Rule("lie", "none", "false") >>
      \o NullRules

VariableRules ==
    ConstructorRules \o CollectionRules \o StoryRules \o TruthRules \o NullRules

ExpressionRules ==
    << Rule("files(", "none", "console.log("),
       Rule("suicide", "s+", "return "),
       Rule("escape", "b", "break") >>
      \o ConstructorRules \o StoryRules

(***************************************************************************)
(* parser.ts: the per-category conversions                                 *)
(***************************************************************************)
convertFunction(line, indent) ==
    LET match == FunctionMatch(line)
    IN IF match.ok
       THEN indent \o "function " \o match.name \o "(" \o match.params \o ") {"
       ELSE indent \o "// ERROR: Invalid function syntax"

convertLoop(line, indent) ==
    LET parts == extractLoop(line)
    IN IF parts.ok
       THEN indent \o "for (const " \o parts.variable \o " of " \o parts.collection \o ") {"
       ELSE indent \o "// ERROR: Invalid loop syntax"

convertConditional(line, indent) ==
    IF line = "else:" THEN indent \o "} else {"
    ELSE LET match == ConditionalMatch(line)
         IN IF match.ok THEN indent \o "if (" \o match.condition \o ") {"
            ELSE indent \o "// ERROR: Invalid conditional syntax"

\* Variant: the declaration emitted without its closing semicolon.
convertVariableNoSemicolon(line, indent) ==
    indent \o "const " \o ApplyRules(line, VariableRules)

convertVariable(line, indent) ==
    indent \o "const " \o ApplyRules(line, VariableRules) \o ";"

convertExpression(line, indent) ==
    LET converted == ApplyRules(line, ExpressionRules)
    IN IF Trim(line) = "}" THEN indent \o "}" ELSE indent \o converted \o ";"

\* Variant: the width used as the repeat count.
IndentationFullWidth(width) == Repeat("  ", width)

\* indent.repeat(line.indent / 2): repeat() truncates a fractional count.
Indentation(width) == Repeat("  ", width \div 2)

\* Variant: an empty line is skipped without a push.
convertLineSkipEmpty(line) ==
    IF line.type = "empty" THEN <<>>
    ELSE CASE line.type = "function" ->
                <<convertFunction(line.cleaned, Indentation(line.indent))>>
           [] line.type = "conditional" ->
                <<convertConditional(line.cleaned, Indentation(line.indent))>>
           [] line.type = "variable" ->
                <<convertVariable(line.cleaned, Indentation(line.indent))>>
           [] OTHER ->
                <<convertExpression(line.cleaned, Indentation(line.indent))>>

\* One iteration of the loop of toJavaScript: what is pushed for one line.
convertLine(line) ==
    IF line.type = "empty" THEN <<"">>
    ELSE CASE line.type = "function" ->
                <<convertFunction(line.cleaned, Indentation(line.indent))>>
           [] line.type = "loop" ->
                <<convertLoop(line.cleaned, Indentation(line.indent))>>
           [] line.type = "conditional" ->
                <<convertConditional(line.cleaned, Indentation(line.indent))>>
           [] line.type = "variable" ->
                <<convertVariable(line.cleaned, Indentation(line.indent))>>
           [] line.type = "expression" ->
                <<convertExpression(line.cleaned, Indentation(line.indent))>>
           [] OTHER -> <<>>

RECURSIVE jsLinesOf(_)
jsLinesOf(ps) ==
    IF Len(ps) = 0 THEN <<>> ELSE convertLine(ps[1]) \o jsLinesOf(Tail(ps))

toJavaScript(ps) == Join(jsLinesOf(ps))

(***************************************************************************)
(* executor.ts (kept as src/unnamed/part_000).  A scope maps names to      *)
(* runtime values; a value is named by the expression that produced it.    *)
(***************************************************************************)
\* The scope after setupGlobalScope.
setupGlobalScope ==
    [k \in {"theory", "risk", "ghost", "money", "island", "girl", "mission",
            "secret", "weapon", "files", "truestory", "falsestory", "truth",
            "lie", "universe", "alibi", "console"} |->
        CASE k = "truestory" -> "Runtime.truth"
          [] k = "falsestory" -> "Runtime.lie"
          [] k = "console" -> "console"
          [] OTHER -> "Runtime." \o k]

\* Variant: the spread operands swapped, the built-in winning a collision.
mergedScopeGlobalWins(scope, customScope) ==
    [k \in DOMAIN scope \cup DOMAIN customScope |->
        IF k \in DOMAIN scope THEN scope[k] ELSE customScope[k]]

\* { ...this.globalScope, ...customScope }
mergedScope(scope, customScope) ==
    [k \in DOMAIN scope \cup DOMAIN customScope |->
        IF k \in DOMAIN customScope THEN customScope[k] ELSE scope[k]]

\* this.globalScope[key] = value
updateScope(scope, key, value) ==
    [k \in DOMAIN scope \cup {key} |-> IF k = key THEN value ELSE scope[k]]

\* { ...this.globalScope }: a new mapping with the same entries.
getScope(scope) == [k \in DOMAIN scope |-> scope[k]]

\* The catch block of Executor.execute: the error caught is thrown again.
ExecutorExecute(threw) == IF threw THEN "ExecutionError" ELSE "none"

(***************************************************************************)
(* interpreter.ts.  A method takes and returns the record of the           *)
(* Interpreter's fields (src, js) and of the call in progress: err is the  *)
(* error being thrown ("none" if none), handed the codes given to the      *)
(* Executor, steps the methods entered.                                    *)
(***************************************************************************)
Enter(s, name) == [s EXCEPT !.steps = Append(@, name)]

Throw(s, error) == [s EXCEPT !.err = error]

\* parser.parse() then parser.toJavaScript(parsedLines), lines 58 to 64.
Translate(src) == toJavaScript(parse(Split(src)))

\* A file is [exists, content]: what existsSync and readFileSync find.
InterpreterLoadFile(s, file) ==
    LET t == Enter(s, "loadFile")
    IN IF ~file.exists THEN Throw(t, "FileNotFound")
       ELSE [t EXCEPT !.src = file.content]

InterpreterLoadCode(s, c) == [Enter(s, "loadCode") EXCEPT !.src = c]

\* exported tells whether './parser' provides the imported name Parser;
\* if not, new Parser(...) throws a TypeError.
InterpreterParse(s, exported) ==
    LET t == Enter(s, "parse")
    IN IF t.src = "" THEN Throw(t, "NoSourceLoaded")
       ELSE IF ~exported THEN Throw(t, "TypeError")
       ELSE [t EXCEPT !.js = Translate(t.src)]

\* Variant: the catch block does not throw the error again.
InterpreterExecuteSwallow(s, threw) ==
    LET t == Enter(s, "execute")
    IN IF t.js = "" THEN Throw(t, "NoCodeToExecute")
       ELSE [t EXCEPT !.handed = Append(@, t.js)]

InterpreterExecute(s, threw) ==
    LET t == Enter(s, "execute")
    IN IF t.js = "" THEN Throw(t, "NoCodeToExecute")
       ELSE Throw([t EXCEPT !.handed = Append(@, t.js)], ExecutorExecute(threw))

\* The methods of a call run in sequence until one throws.
InterpreterRun(s, file, exported, threw) ==
    LET loaded == InterpreterLoadFile(s, file)
        parsed == IF loaded.err # "none" THEN loaded
                  ELSE InterpreterParse(loaded, exported)
    IN IF parsed.err # "none" THEN parsed ELSE InterpreterExecute(parsed, threw)

InterpreterRunCode(s, c, exported, threw) ==
    LET loaded == InterpreterLoadCode(s, c)
        parsed == IF loaded.err # "none" THEN loaded
                  ELSE InterpreterParse(loaded, exported)
    IN IF parsed.err # "none" THEN parsed ELSE InterpreterExecute(parsed, threw)

\* The fields of a new Interpreter, no call in progress.
NewInterpreter == [src |-> "", js |-> "", err |-> "none", handed |-> <<>>, steps |-> <<>>]

\* The Interpreter's fields at the start of a call.
StartCall(src, js) == [NewInterpreter EXCEPT !.src = src, !.js = js]

\* What is kept of a finished call: the method called, its inputs (the file
\* found or not, the evaluation having thrown or not, DEBUG), the fields it
\* started from, and what it did.
CallRecord(op, before, after, fileExists, threw, debug) ==
    [op |-> op,
     err |-> after.err,
     handed |-> after.handed,
     steps |-> after.steps,
     preSrc |-> before.src,
     preJs |-> before.js,
     fileExists |-> fileExists,
     evalThrew |-> threw /\ after.handed # <<>>,
     debug |-> debug,
     debugShown |-> FALSE,
     exit |-> "running"]

NoCall == CallRecord("new", NewInterpreter, NewInterpreter, TRUE, FALSE, FALSE)

\* index.ts main(): run the file, show the debug dump if DEBUG is set, and on
\* any error caught exit with status 1; otherwise main returns.
MainRecord(after, fileExists, threw, debug) ==
    [CallRecord("main", NewInterpreter, after, fileExists, threw, debug) EXCEPT
        !.debugShown = (after.err = "none" /\ debug),
        !.exit = IF after.err # "none" THEN "exit(1)" ELSE "returned"]

\* The variables of the Interpreter and of the Executor when none is in use.
InterpIdle ==
    /\ sourceCode = ""
    /\ interpJsCode = ""
    /\ parserExported = FALSE
    /\ call = NoCall

EmptyScope == [k \in {} |-> ""]

ExecIdle ==
    /\ globalScope = setupGlobalScope
    /\ evalScope = EmptyScope
    /\ scopeCopy = EmptyScope
    /\ execCall = [op |-> "new", customScope |-> EmptyScope, threw |-> FALSE]

ParserIdle ==
    /\ code = ""
    /\ lines = <<"">>
    /\ parsedLines = <<>>
    /\ jsCode = ""
    /\ pc = "constructed"
    /\ pass = 0

(***************************************************************************)
(* The source texts explored: every indentation, body and line ending of   *)
(* the structural lines, every rule keyword alone and inside a longer      *)
(* identifier on a binding line and on an expression line, and the         *)
(* programs of up to MaxLines lines over CoreLines.                        *)
(***************************************************************************)
Indents == {Repeat(" ", n) : n \in 0..MaxIndent} \cup {"\t"}

Trailers == {"", " // note", "\r"}

Names == {"f", "broken", "plan_b2"}

ArgLists == {"", "x", "a, b=1", "g(x)"}

CollectionNames == {"crew", "x1"}

FunctionHeaders == {"plot " \o n \o "(" \o a \o "):" : n \in Names, a \in ArgLists}

LoopHeaders == {"loop " \o c \o ":" : c \in CollectionNames}

StructBodies ==
    FunctionHeaders \cup LoopHeaders \cup
    {"", "}", "plot", "plot broken(x)", "plot x", "plot  f(x): rest", "plan g():",
     "if truth:", "if x", "if a == b:", "if  :", "if (x) {", "if a: b:", "if",
     "else:", "else", "loop crew", "loop", "deal = \"Classified\"",
     "files \"Approved\"", "files(deal)", "truthful = truth", "url = \"a//b\"",
     "x == y", "suicide", "suicide   x"}

StructLines == {i \o b \o t : i \in Indents, b \in StructBodies, t \in Trailers}

\* The keywords of the replace() calls of convertVariable and convertExpression.
RuleKeywords ==
    {"theory", "risk", "ghost", "money", "island", "girl", "mission", "weapon",
     "truestory", "falsestory", "truth", "lie", "universe", "alibi",
     "files", "suicide", "escape"}

TokenBodies ==
    {frame \o pre \o kw \o post \o follow :
        frame \in {"", "x = "}, pre \in {"", "my", "_"}, kw \in RuleKeywords,
        post \in {"", "ful", "2"}, follow \in {"", "(1)", "[1]", "{}", " 1"}}

CoreLines ==
    {"", "  // note", "}", "if truth:", "    files \"Approved\"", "else:", "if x",
     "plot broken(x)", "  plot f(a, b=1):", "if a == b:", "loop crew:", "loop crew",
     "deal = \"Classified\"", "truthful = truth"}

Programs == UNION {[1..n -> CoreLines] : n \in 2..MaxLines}

Sources == StructLines \cup TokenBodies \cup {Join(p) : p \in Programs}

(***************************************************************************)
(* The translation pipeline: new EpsteinParser(code), parse(),             *)
(* toJavaScript(parsed); the output can be handed to a new parser.         *)
(***************************************************************************)
Init ==
    /\ code \in Sources
    /\ lines = Split(code)
    /\ parsedLines = <<>>
    /\ jsCode = ""
    /\ pc = "constructed"
    /\ pass = 0
    /\ InterpIdle
    /\ ExecIdle

Parse ==
    /\ pc = "constructed"
    /\ parsedLines' = parse(lines)
    /\ pc' = "parsed"
    /\ UNCHANGED <<code, lines, jsCode, pass, interpVars, execVars>>

ToJavaScript ==
    /\ pc = "parsed"
    /\ jsCode' = toJavaScript(parsedLines)
    /\ pc' = "translated"
    /\ UNCHANGED <<code, lines, parsedLines, pass, interpVars, execVars>>

\* new EpsteinParser(jsCode): the generated text classified as foreign text.
Reparse ==
    /\ pc = "translated"
    /\ pass < MaxPasses
    /\ code' = jsCode
    /\ lines' = Split(jsCode)
    /\ parsedLines' = <<>>
    /\ jsCode' = ""
    /\ pc' = "constructed"
    /\ pass' = pass + 1
    /\ UNCHANGED <<interpVars, execVars>>

Next == Parse \/ ToJavaScript \/ Reparse

Spec == Init /\ [][Next]_vars

(***************************************************************************)
(* The Interpreter driven by a caller: any sequence of its public methods, *)
(* and index.ts main(), which runs a new Interpreter on a file.            *)
(***************************************************************************)
InterpSources ==
    {"", "// note", "\n", "x = 1", "deal = \"Classified\"", "files(deal)",
     "if truth:\n    files \"Approved\""}

Files ==
    {[exists |-> TRUE, content |-> c] : c \in InterpSources}
        \cup {[exists |-> FALSE, content |-> ""]}

InterpInit ==
    /\ sourceCode = ""
    /\ interpJsCode = ""
    /\ parserExported \in BOOLEAN
    /\ call = NoCall
    /\ ParserIdle
    /\ ExecIdle

\* The fields and the record of the call after a method returned or threw.
Finish(after, record) ==
    /\ sourceCode' = after.src
    /\ interpJsCode' = after.js
    /\ call' = record
    /\ UNCHANGED <<parserExported, parserVars, execVars>>

LoadFile ==
    \E file \in Files :
        LET before == StartCall(sourceCode, interpJsCode)
            after == InterpreterLoadFile(before, file)
        IN Finish(after, CallRecord("loadFile", before, after, file.exists, FALSE, FALSE))

LoadCode ==
    \E c \in InterpSources :
        LET before == StartCall(sourceCode, interpJsCode)
            after == InterpreterLoadCode(before, c)
        IN Finish(after, CallRecord("loadCode", before, after, TRUE, FALSE, FALSE))

InterpParse ==
    LET before == StartCall(sourceCode, interpJsCode)
        after == InterpreterParse(before, parserExported)
    IN Finish(after, CallRecord("parse", before, after, TRUE, FALSE, FALSE))

Execute ==
    \E threw \in BOOLEAN :
        LET before == StartCall(sourceCode, interpJsCode)
            after == InterpreterExecute(before, threw)
        IN Finish(after, CallRecord("execute", before, after, TRUE, threw, FALSE))

Run ==
    \E file \in Files, threw \in BOOLEAN :
        LET before == StartCall(sourceCode, interpJsCode)
            after == InterpreterRun(before, file, parserExported, threw)
        IN Finish(after, CallRecord("run", before, after, file.exists, threw, FALSE))

RunCode ==
    \E c \in InterpSources, threw \in BOOLEAN :
        LET before == StartCall(sourceCode, interpJsCode)
            after == InterpreterRunCode(before, c, parserExported, threw)
        IN Finish(after, CallRecord("runCode", before, after, TRUE, threw, FALSE))

Main ==
    \E file \in Files, threw \in BOOLEAN, debug \in BOOLEAN :
        LET after == InterpreterRun(NewInterpreter, file, parserExported, threw)
        IN Finish(after, MainRecord(after, file.exists, threw, debug))

InterpNext == LoadFile \/ LoadCode \/ InterpParse \/ Execute \/ Run \/ RunCode \/ Main

InterpSpec == InterpInit /\ [][InterpNext]_vars

(***************************************************************************)
(* The Executor driven by a caller: its public methods, and the caller     *)
(* writing into the mapping getScope returned.                             *)
(***************************************************************************)
ScopeKeys == {"truth", "x"}

ScopeValues == {"v1", "v2"}

\* The mappings a caller passes to executeWithScope.
CustomScopes == UNION {[D -> ScopeValues] : D \in SUBSET ScopeKeys}

ExecInit ==
    /\ ExecIdle
    /\ ParserIdle
    /\ InterpIdle

\* new Function(...Object.keys(scope), jsCode)(...Object.values(scope)):
\* the code runs with the entries of scope as its bindings, and may throw.
Evaluate(op, scope, customScope, threw) ==
    /\ evalScope' = scope
    /\ execCall' = [op |-> op, customScope |-> customScope, threw |-> threw]
    /\ UNCHANGED <<globalScope, scopeCopy, parserVars, interpVars>>

ExecExecute ==
    \E threw \in BOOLEAN : Evaluate("execute", globalScope, EmptyScope, threw)

ExecExecuteWithScope ==
    \E customScope \in CustomScopes, threw \in BOOLEAN :
        Evaluate("executeWithScope", mergedScope(globalScope, customScope),
                 customScope, threw)

ExecExecuteWithReturn ==
    \E threw \in BOOLEAN : Evaluate("executeWithReturn", globalScope, EmptyScope, threw)

ExecGetScope ==
    /\ scopeCopy' = getScope(globalScope)
    /\ execCall' = [op |-> "getScope", customScope |-> EmptyScope, threw |-> FALSE]
    /\ UNCHANGED <<globalScope, evalScope, parserVars, interpVars>>

ExecUpdateScope ==
    \E key \in ScopeKeys, value \in ScopeValues :
        /\ globalScope' = updateScope(globalScope, key, value)
        /\ execCall' = [op |-> "updateScope", customScope |-> EmptyScope, threw |-> FALSE]
        /\ UNCHANGED <<evalScope, scopeCopy, parserVars, interpVars>>

\* The caller assigns to a key of the mapping it got from getScope.
MutateCopy ==
    \E key \in ScopeKeys, value \in ScopeValues :
        /\ scopeCopy # EmptyScope
        /\ scopeCopy' = updateScope(scopeCopy, key, value)
        /\ execCall' = [op |-> "mutateCopy", customScope |-> EmptyScope, threw |-> FALSE]
        /\ UNCHANGED <<globalScope, evalScope, parserVars, interpVars>>

ExecNext ==
    \/ ExecExecute
    \/ ExecExecuteWithScope
    \/ ExecExecuteWithReturn
    \/ ExecGetScope
    \/ ExecUpdateScope
    \/ MutateCopy

ExecSpec == ExecInit /\ [][ExecNext]_vars

TypeOK ==
    /\ pc \in {"constructed", "parsed", "translated"}
    /\ pass \in 0..MaxPasses
    /\ Len(lines) >= 1
    /\ \A i \in 1..Len(parsedLines) : parsedLines[i].type \in LineTypes

\* The output lines of a finished translation.
jsLines == Split(jsCode)

\* Number of occurrences of character c in s.
CountChar(s, c) == Cardinality({i \in 1..Len(s) : At(s, i) = c})

(***************************************************************************)
(* C1.  Translating the N classified lines that parse() produced yields    *)
(* exactly N output lines: the joined output has N-1 newline separators,   *)
(* and the output line of every empty (blank) line is empty, whatever the  *)
(* categories of the lines and whether or not a header is malformed.       *)
(***************************************************************************)
C1_LineCount ==
    pc = "translated" =>
        /\ Len(parsedLines) = Len(lines)
        /\ Len(jsLines) = Len(parsedLines)
        /\ CountChar(jsCode, "\n") = Len(parsedLines) - 1
        /\ \A i \in 1..Len(parsedLines) :
              parsedLines[i].type = "empty" => jsLines[i] = ""

\* A two-line program with a blank line and a malformed header, translated.
C1_Witness ==
    /\ pc = "translated"
    /\ Len(parsedLines) = 2
    /\ parsedLines[1].type = "empty"
    /\ jsLines[1] = ""
    /\ jsLines[2] = "// ERROR: Invalid function syntax"

(***************************************************************************)
(* C2.  parseLine gives every line exactly one category, decided on the    *)
(* cleaned text by the fixed precedence empty > function > conditional >   *)
(* assignment > expression: "plot " first even when the text contains "=", *)
(* then "if " or "else:" even when it contains "=", then "=".              *)
(***************************************************************************)
CategoryByPrecedence(cleaned) ==
    IF cleaned = "" THEN "empty"
    ELSE IF StartsWith(cleaned, "plot ") THEN "function"
    ELSE IF StartsWith(cleaned, "if ") \/ cleaned = "else:" THEN "conditional"
    ELSE IF Includes(cleaned, "=") THEN "variable"
    ELSE "expression"

C2_Precedence ==
    pc # "constructed" =>
        /\ Len(parsedLines) = Len(lines)
        /\ \A i \in 1..Len(parsedLines) :
              /\ parsedLines[i].type \in LineTypes
              /\ parsedLines[i].type = CategoryByPrecedence(Trim(removeComment(lines[i])))

\* A function header and a conditional that both contain "=", classified.
C2_Witness ==
    /\ pc = "parsed"
    /\ Len(parsedLines) = 2
    /\ parsedLines[1].type = "function"
    /\ Includes(parsedLines[1].cleaned, "=")
    /\ parsedLines[2].type = "conditional"
    /\ Includes(parsedLines[2].cleaned, "=")

(***************************************************************************)
(* C10.  A line of only whitespace, or whose trimmed text starts with      *)
(* "//", is classified empty with empty cleaned text and is translated to  *)
(* the empty string; and a line is classified empty exactly when its       *)
(* comment-stripped, trimmed text is empty.                                *)
(***************************************************************************)
OnlyWhitespace(line) == \A j \in 1..Len(line) : At(line, j) \in Whitespace

C10_EmptyLines ==
    pc # "constructed" =>
        \A i \in 1..Len(parsedLines) :
            /\ (OnlyWhitespace(lines[i]) \/ StartsWith(Trim(lines[i]), "//")) =>
                  /\ parsedLines[i].type = "empty"
                  /\ parsedLines[i].cleaned = ""
                  /\ pc = "translated" => jsLines[i] = ""
            /\ parsedLines[i].type = "empty" <=> Trim(removeComment(lines[i])) = ""

\* An indented comment-only line, translated to the empty string.
C10_Witness ==
    /\ pc = "translated"
    /\ Len(lines) = 1
    /\ getIndent(lines[1]) > 0
    /\ StartsWith(Trim(lines[1]), "//")
    /\ parsedLines[1].type = "empty"
    /\ jsCode = ""

RECURSIVE WordsFrom(_, _)
WordsFrom(s, i) ==
    IF i > Len(s) THEN <<>>
    ELSE IF IsWord(At(s, i))
         THEN <<Sub(s, i, SkipWord(s, i) - 1)>> \o WordsFrom(s, SkipWord(s, i))
         ELSE WordsFrom(s, i + 1)

WordsOf(s) == WordsFrom(s, 1)

Occurrences(w, ws) == Cardinality({k \in 1..Len(ws) : ws[k] = w})

C7_WholeWordOnly ==
    pc = "translated" =>
        \A i \in 1..Len(parsedLines) :
            parsedLines[i].type \in {"variable", "expression"} =>
                LET before == WordsOf(parsedLines[i].cleaned)
                    after == WordsOf(jsLines[i])
                IN \A k \in 1..Len(before) :
                      before[k] \notin RuleKeywords =>
                          Occurrences(before[k], after) >= Occurrences(before[k], before)

\* A binding whose name contains a keyword and whose value is that keyword.
C7_Witness ==
    /\ pc = "translated"
    /\ parsedLines = <<ParsedLine("truthful = truth", "truthful = truth", 0, "variable")>>
    /\ jsCode = "const truthful = true;"

(***************************************************************************)
(* C3.  A source line "loop <collection>:" is translated to the for-each   *)
(* header "for (const item of <collection>) {".                            *)
(***************************************************************************)
C3_LoopHeader ==
    pc = "translated" =>
        \A i \in 1..Len(lines) :
            \A ind \in Indents, c \in CollectionNames, t \in Trailers :
                lines[i] = ind \o "loop " \o c \o ":" \o t =>
                    jsLines[i] = Indentation(Len(ind))
                                   \o "for (const item of " \o c \o ") {"

(***************************************************************************)
(* C4.  The program "if truth:" followed by the indented line              *)
(* files "Approved" is translated to "if (true) {" followed by             *)
(* console.log("Approved"); behind two spaces.                             *)
(***************************************************************************)
C4_ConditionalPrint ==
    (pc = "translated" /\ code = "if truth:\n    files \"Approved\"") =>
        jsCode = "if (true) {\n  console.log(\"Approved\");"

(***************************************************************************)
(* C6.  A function, loop or conditional header that does not match its     *)
(* pattern is translated to one comment line flagging invalid syntax, and  *)
(* every line is translated as it is when it is the whole program.         *)
(***************************************************************************)
MalformedFunction(cleaned) == StartsWith(cleaned, "plot ") /\ ~FunctionMatch(cleaned).ok

MalformedLoop(cleaned) == StartsWith(cleaned, "loop ") /\ ~extractLoop(cleaned).ok

MalformedConditional(cleaned) == StartsWith(cleaned, "if ") /\ ~ConditionalMatch(cleaned).ok

IsErrorComment(out) == StartsWith(Trim(out), "// ERROR: Invalid")

C6_MalformedHeader ==
    pc = "translated" =>
        \A i \in 1..Len(lines) :
            LET cleaned == Trim(removeComment(lines[i]))
            IN /\ (\/ MalformedFunction(cleaned)
                   \/ MalformedLoop(cleaned)
                   \/ MalformedConditional(cleaned)) => IsErrorComment(jsLines[i])
               /\ jsLines[i] = toJavaScript(parse(<<lines[i]>>))

\* The part of C6 the classifier supports: function and conditional headers.
MalformedFunctionOrConditional ==
    pc = "translated" =>
        \A i \in 1..Len(lines) :
            LET cleaned == Trim(removeComment(lines[i]))
            IN /\ (MalformedFunction(cleaned) \/ MalformedConditional(cleaned)) =>
                      IsErrorComment(jsLines[i])
               /\ jsLines[i] = toJavaScript(parse(<<lines[i]>>))

(***************************************************************************)
(* C8.  No line of the translator's output, classified again, is a         *)
(* function, a conditional or a loop header.                               *)
(***************************************************************************)
C8_OutputNotReclassified ==
    (pass >= 1 /\ pc # "constructed") =>
        \A i \in 1..Len(parsedLines) :
            /\ parsedLines[i].type \notin {"function", "conditional", "loop"}
            /\ ~extractLoop(parsedLines[i].cleaned).ok

(***************************************************************************)
(* C9.  The type-constructor, boolean, null and collection substitutions   *)
(* are performed on binding lines and on expression lines alike: the       *)
(* output of a line of either category has no match of any of them left.   *)
(***************************************************************************)
SharedRules == ConstructorRules \o CollectionRules \o StoryRules \o TruthRules \o NullRules

HasMatch(s, r) == \E i \in 1..Len(s) : MatchLen(s, i, r) > 0

C9_SameSubstitutions ==
    pc = "translated" =>
        \A i \in 1..Len(parsedLines) :
            parsedLines[i].type \in {"variable", "expression"} =>
                \A k \in 1..Len(SharedRules) : ~HasMatch(jsLines[i], SharedRules[k])

\* The part of C9 that convertVariable alone decides.
SubstitutionsOnVariableLines ==
    pc = "translated" =>
        \A i \in 1..Len(parsedLines) :
            parsedLines[i].type = "variable" =>
                \A k \in 1..Len(SharedRules) : ~HasMatch(jsLines[i], SharedRules[k])

(***************************************************************************)
(* C11.  Every line classified variable is emitted as a constant           *)
(* declaration: the indentation, "const ", the cleaned text after the      *)
(* substitution pass (no rule of the pass matches it any more, and a text  *)
(* no rule matches is kept as it is), then ";".  The line                  *)
(* deal = "Classified" at indent 0 gives const deal = "Classified";        *)
(***************************************************************************)
C11_ConstDeclaration ==
    pc = "translated" =>
        /\ \A i \in 1..Len(parsedLines) :
              parsedLines[i].type = "variable" =>
                  LET cleaned == parsedLines[i].cleaned
                      head == Repeat(" ", 2 * (parsedLines[i].indent \div 2)) \o "const "
                      out == jsLines[i]
                      body == Sub(out, Len(head) + 1, Len(out) - 1)
                  IN /\ StartsWith(out, head)
                     /\ At(out, Len(out)) = ";"
                     /\ body = ApplyRules(cleaned, SharedRules)
                     /\ \A k \in 1..Len(SharedRules) : ~HasMatch(body, SharedRules[k])
                     /\ (\A k \in 1..Len(SharedRules) : ~HasMatch(cleaned, SharedRules[k]))
                           => body = cleaned
        /\ lines = <<"deal = \"Classified\"">> =>
              /\ parsedLines[1].type = "variable"
              /\ parsedLines[1].indent = 0
              /\ jsCode = "const deal = \"Classified\";"

\* The scenario line, classified variable at indent 0 and translated.
C11_Witness ==
    /\ pc = "translated"
    /\ pass = 0
    /\ lines = <<"deal = \"Classified\"">>
    /\ parsedLines[1].type = "variable"
    /\ parsedLines[1].indent = 0
    /\ jsCode = "const deal = \"Classified\";"

(***************************************************************************)
(* C12.  Once a source has been loaded (an empty file, or only blank and   *)
(* comment lines, included) a run can fail only at the execution boundary: *)
(* parse() completes, execute() hands the translation of the source to the *)
(* Executor, and the only error is one thrown by the evaluation.  Stated   *)
(* for a build in which the Parser import resolves.                        *)
(***************************************************************************)
C12_OnlyExecutionFails ==
    (/\ parserExported
     /\ call.op \in {"run", "runCode", "main"}
     /\ call.fileExists) =>
        /\ call.err \in {"none", "ExecutionError"}
        /\ call.handed = <<Translate(sourceCode)>>

(***************************************************************************)
(* C13.  A failure of a call is propagated with its cause and ends the     *)
(* call: a missing file gives the load error, an evaluation that threw     *)
(* gives that error after one hand-over to the Executor (no retry), the    *)
(* last method entered is the one that failed, main() then exits with      *)
(* status 1, and the debug dump is shown only after a completed run.       *)
(***************************************************************************)
FailingStep(error) ==
    CASE error = "FileNotFound" -> "loadFile"
      [] error \in {"NoSourceLoaded", "TypeError"} -> "parse"
      [] error \in {"NoCodeToExecute", "ExecutionError"} -> "execute"
      [] OTHER -> "none"

C13_FailurePropagates ==
    /\ ~call.fileExists =>
          /\ call.err = "FileNotFound"
          /\ call.steps = <<"loadFile">>
          /\ call.handed = <<>>
    /\ call.evalThrew =>
          /\ call.err = "ExecutionError"
          /\ Len(call.handed) = 1
    /\ Len(call.handed) <= 1
    /\ call.err # "none" => call.steps[Len(call.steps)] = FailingStep(call.err)
    /\ call.op = "main" =>
          /\ call.exit = IF call.err # "none" THEN "exit(1)" ELSE "returned"
          /\ call.debugShown =>
                /\ call.err = "none"
                /\ call.steps = <<"loadFile", "parse", "execute">>
                /\ Len(call.handed) = 1
    /\ call.op # "main" => call.exit = "running" /\ ~call.debugShown

\* main() with DEBUG set whose generated code threw: status 1 and no dump.
C13_Witness ==
    /\ call.op = "main"
    /\ call.debug
    /\ call.evalThrew
    /\ call.err = "ExecutionError"
    /\ call.steps = <<"loadFile", "parse", "execute">>
    /\ call.exit = "exit(1)"
    /\ ~call.debugShown

PrerequisiteErrorChangesNothing ==
    (call.op \in {"parse", "execute"}
       /\ call.err \in {"NoSourceLoaded", "NoCodeToExecute"}) =>
        /\ sourceCode = call.preSrc
        /\ interpJsCode = call.preJs

\* Within run() and runCode() the code handed over is the current translation.
RunExecutesCurrentSource ==
    (call.op \in {"run", "runCode", "main"} /\ call.handed # <<>>) =>
        call.handed = <<Translate(sourceCode)>>

(***************************************************************************)
(* C14.  executeWithScope evaluates the code with the union of the global  *)
(* scope and the caller's bindings, the caller's value winning on every    *)
(* name in both; execute evaluates with the global scope; and only         *)
(* updateScope changes the global scope: no evaluation, whether it returns *)
(* or throws, no getScope and no write into the mapping getScope returned  *)
(* does.                                                                   *)
(***************************************************************************)
MergedAsClaimed ==
    execCall.op = "executeWithScope" =>
        /\ DOMAIN evalScope = DOMAIN globalScope \cup DOMAIN execCall.customScope
        /\ \A k \in DOMAIN evalScope :
              evalScope[k] = IF k \in DOMAIN execCall.customScope
                             THEN execCall.customScope[k]
                             ELSE globalScope[k]

GlobalSeenByExecute ==
    /\ execCall.op \in {"execute", "executeWithReturn"} => evalScope = globalScope
    /\ execCall.op = "getScope" => scopeCopy = globalScope

OnlyUpdateScopeWrites ==
    execCall'.op # "updateScope" => globalScope' = globalScope

C14_ScopeMerge ==
    /\ [](MergedAsClaimed /\ GlobalSeenByExecute)
    /\ [][OnlyUpdateScopeWrites]_vars

\* An evaluation that threw, with a caller binding over a built-in one and a
\* new name, after updateScope had replaced that built-in in the global scope.
C14_Witness ==
    /\ execCall.op = "executeWithScope"
    /\ execCall.threw
    /\ DOMAIN execCall.customScope = {"truth", "x"}
    /\ globalScope["truth"] = "v2"
    /\ evalScope["truth"] = "v1"
    /\ "x" \notin DOMAIN globalScope
    /\ evalScope["x"] = "v2"

====
